---- MODULE Spec2Model ----
(***************************************************************************)
(* TempBox: an in-memory key/value store with per-key TTL, a queue of      *)
(* pending expirations ordered by expiresAt, and one platform timer.       *)
(*                                                                         *)
(* The store runs on one cooperative thread: every public method and the   *)
(* timer callback run to completion, so each is one atomic action.  The    *)
(* platform is modelled by `now` (Date.now()) and `timers` (the timeouts   *)
(* registered with setTimeout and not yet fired or cleared).  A timeout    *)
(* never fires before its delay has elapsed and may fire any time after.   *)
(* The queue is kept in the order of its comparator; the order it gives to *)
(* items that compare equal is left open, so every such order is explored. *)
(***************************************************************************)
EXTENDS Integers, Sequences, FiniteSets, TLC

\* ------------------------------------------------------------- bounds
MaxTime == 2
MaxTTL == 2
MaxSets == 2

Keys == {"a", "b"}

\* The store never inspects or compares a value, so the i-th set() call is given
\* the value ValueOf(i): a value then identifies the call that stored it.
ValueOf(i) == "v" \o ToString(i)
Values == {ValueOf(i) : i \in 1 .. MaxSets}

\* null / undefined of the source: expiresAt of an entry stored without a TTL,
\* an omitted ttlMs argument, the initial this.timer.
null == -1
undefined == "undefined"

\* The ttlMs arguments tried: omitted, 0, and the positive durations.
TTLs == {null} \cup (0 .. MaxTTL)

VARIABLES
    now,      \* Date.now()
    data,     \* this.data: key -> [value, expiresAt], and the ghost fields
              \*   id: which set() call made the entry
              \*   over: it replaced an unexpired entry of the key with an earlier expiresAt
    queue,    \* this.queue: the items in the order pop() returns them
    timer,    \* this.timer: null or the handle of the last timeout created
    timers,   \* the platform's pending timeouts
    expired,  \* the onExpire invocations so far, in order
    last,     \* the last public call or timer callback: its result and its callbacks
    gone,     \* ghost: key -> delete() removed its entry before expiresAt, no set() since
    cleared,  \* ghost: the value of nsets at the last clear()
    nsets     \* ghost: number of set() calls so far

vars == <<now, data, queue, timer, timers, expired, last, gone, cleared, nsets>>

\* ------------------------------------------------------------- JavaScript
\* Mutant: a TTL of 0 counts as a TTL (a test for null in place of truthiness).
Truthy_NotNull(x) == x # null

\* Truthiness of a number-or-null: null, undefined and 0 are falsy.
Truthy(x) == x # null /\ x # 0

Max(a, b) == IF a >= b THEN a ELSE b

\* ------------------------------------------------------------- Map
MapHas(d, k) == k \in DOMAIN d

MapSet(d, k, e) == [x \in (DOMAIN d) \cup {k} |-> IF x = k THEN e ELSE d[x]]

MapDelete(d, k) == [x \in (DOMAIN d) \ {k} |-> d[x]]

EmptyMap == [x \in {} |-> 0]

\* ------------------------------------------------------------- queue
\* Mutant: the comparator reversed, which makes the queue a max-queue.
compare_Reversed(a, b) == b.expiresAt - a.expiresAt

\* The comparator given to TinyQueue: a.expiresAt - b.expiresAt.
compare(a, b) == a.expiresAt - b.expiresAt

\* The positions at which push may place an item: after every item that compares
\* smaller and before every item that compares greater.  The order among items
\* that compare equal is the queue's own affair, so every such position is tried.
PushPositions(q, item) ==
    {p \in 0 .. Len(q) :
        /\ \A i \in 1 .. p : compare(q[i], item) <= 0
        /\ \A i \in (p + 1) .. Len(q) : compare(q[i], item) >= 0}

InsertAt(q, p, item) == SubSeq(q, 1, p) \o <<item>> \o SubSeq(q, p + 1, Len(q))

pop(q) == IF q = <<>> THEN q ELSE Tail(q)

peek(q) == Head(q)

\* ------------------------------------------------------------- timeouts
clearTimeout(ts, h) == {t \in ts : t.id # h}

\* A handle not in use by a pending timeout.
NewHandle(ts) == CHOOSE h \in 1 .. (Cardinality(ts) + 1) : \A t \in ts : t.id # h

\* The timeout setTimeout registers at time t for the queue item `item`, whose
\* callback closes over the item's key and the entry found for it.
setTimeout(ts, item, entry, delay, t) ==
    [id |-> NewHandle(ts), key |-> item.key, entry |-> entry,
     expiresAt |-> item.expiresAt, at |-> t + delay]

Call(cb, k, v) == [cb |-> cb, key |-> k, value |-> v]

\* ------------------------------------------------------------- _scheduleNext
\* Mutant: the validity test inverted (=== for !==), which discards the valid items.
Stale_Inverted(d, item) == ~MapHas(d, item.key) \/ d[item.key].expiresAt = item.expiresAt

\* Whether _scheduleNext finds the queue item stale.
Stale(d, item) == ~MapHas(d, item.key) \/ d[item.key].expiresAt # item.expiresAt

\* The while loop's stale pops: items whose key is gone or whose expiresAt is not
\* the entry's current one are popped until a valid item is at the front.
RECURSIVE DropStale(_, _)
DropStale(q, d) ==
    IF Len(q) > 0
    THEN IF Stale(d, peek(q)) THEN DropStale(pop(q), d) ELSE q
    ELSE q

\* Mutant: _scheduleNext without its clearTimeout of the previous timeout.
scheduleNext_NoClear(d, q, h, ts, t) ==
    LET q2 == DropStale(q, d)
    IN  IF Len(q2) > 0
        THEN LET item == peek(q2)
                 delay == Max(0, item.expiresAt - t)
                 nt == setTimeout(ts, item, d[item.key], delay, t)
             IN [queue |-> q2, timer |-> nt.id, timers |-> ts \cup {nt}]
        ELSE [queue |-> q2, timer |-> h, timers |-> ts]

\* Mutant: the delay computed without Math.max(0, .).
scheduleNext_NoMax(d, q, h, ts, t) ==
    LET cleared_ts == IF h # null THEN clearTimeout(ts, h) ELSE ts
        q2 == DropStale(q, d)
    IN  IF Len(q2) > 0
        THEN LET item == peek(q2)
                 delay == item.expiresAt - t
                 nt == setTimeout(cleared_ts, item, d[item.key], delay, t)
             IN [queue |-> q2, timer |-> nt.id, timers |-> cleared_ts \cup {nt}]
        ELSE [queue |-> q2, timer |-> h, timers |-> cleared_ts]

\* The state _scheduleNext leaves: [queue, timer, timers].
scheduleNext(d, q, h, ts, t) ==
    LET cleared_ts == IF h # null THEN clearTimeout(ts, h) ELSE ts
        q2 == DropStale(q, d)
    IN  IF Len(q2) > 0
        THEN LET item == peek(q2)
                 delay == Max(0, item.expiresAt - t)
                 nt == setTimeout(cleared_ts, item, d[item.key], delay, t)
             IN [queue |-> q2, timer |-> nt.id, timers |-> cleared_ts \cup {nt}]
        ELSE [queue |-> q2, timer |-> h, timers |-> cleared_ts]

\* ------------------------------------------------------------- constructor
Init ==
    /\ now = 0
    /\ data = EmptyMap
    /\ queue = <<>>
    /\ timer = null
    /\ timers = {}
    /\ expired = <<>>
    /\ last = [op |-> "new", key |-> undefined, ret |-> undefined, calls |-> <<>>]
    /\ gone = [k \in Keys |-> FALSE]
    /\ cleared = 0
    /\ nsets = 0

\* ------------------------------------------------------------- _expire
\* The onExpire invocation _expire makes for `entry` of key k; `by` tells the caller
\* (ghost): "lazy" from get/has, "timer" from the timeout callback.
ExpireCall(k, entry, by) ==
    [key |-> k, value |-> entry.value, id |-> entry.id, over |-> entry.over,
     expiresAt |-> entry.expiresAt, by |-> by]

\* ------------------------------------------------------------- set
\* Mutant: set calls _scheduleNext only when no timeout is pending.
Set_ScheduleIfIdle(k, v, ttlMs) ==
    /\ nsets < MaxSets
    /\ v = ValueOf(nsets + 1)
    /\ Truthy(ttlMs) => now + ttlMs <= MaxTime
    /\ LET expiresAt == IF Truthy(ttlMs) THEN now + ttlMs ELSE null
           entry == [value |-> v, expiresAt |-> expiresAt, id |-> nsets + 1,
                     over |-> /\ MapHas(data, k)
                              /\ Truthy(data[k].expiresAt)
                              /\ now < data[k].expiresAt
                              /\ Truthy(expiresAt)
                              /\ data[k].expiresAt < expiresAt]
           item == [key |-> k, expiresAt |-> expiresAt]
           d2 == MapSet(data, k, entry)
       IN /\ data' = d2
          /\ IF Truthy(expiresAt)
             THEN \E p \in PushPositions(queue, item) :
                    LET s == IF timers = {}
                             THEN scheduleNext(d2, InsertAt(queue, p, item), timer, timers, now)
                             ELSE [queue |-> InsertAt(queue, p, item), timer |-> timer,
                                   timers |-> timers]
                    IN /\ queue' = s.queue
                       /\ timer' = s.timer
                       /\ timers' = s.timers
             ELSE UNCHANGED <<queue, timer, timers>>
    /\ last' = [op |-> "set", key |-> k, ret |-> undefined,
                calls |-> <<Call("onSet", k, v)>>, ttlMs |-> ttlMs]
    /\ gone' = [gone EXCEPT ![k] = FALSE]
    /\ nsets' = nsets + 1
    /\ UNCHANGED <<now, expired, cleared>>

Set(k, v, ttlMs) ==
    /\ nsets < MaxSets
    /\ v = ValueOf(nsets + 1)
    /\ Truthy(ttlMs) => now + ttlMs <= MaxTime
    /\ LET expiresAt == IF Truthy(ttlMs) THEN now + ttlMs ELSE null
           entry == [value |-> v, expiresAt |-> expiresAt, id |-> nsets + 1,
                     over |-> /\ MapHas(data, k)
                              /\ Truthy(data[k].expiresAt)
                              /\ now < data[k].expiresAt
                              /\ Truthy(expiresAt)
                              /\ data[k].expiresAt < expiresAt]
           item == [key |-> k, expiresAt |-> expiresAt]
           d2 == MapSet(data, k, entry)
       IN /\ data' = d2
          /\ IF Truthy(expiresAt)
             THEN \E p \in PushPositions(queue, item) :
                    LET s == scheduleNext(d2, InsertAt(queue, p, item), timer, timers, now)
                    IN /\ queue' = s.queue
                       /\ timer' = s.timer
                       /\ timers' = s.timers
             ELSE UNCHANGED <<queue, timer, timers>>
    /\ last' = [op |-> "set", key |-> k, ret |-> undefined,
                calls |-> <<Call("onSet", k, v)>>, ttlMs |-> ttlMs]
    /\ gone' = [gone EXCEPT ![k] = FALSE]
    /\ nsets' = nsets + 1
    /\ UNCHANGED <<now, expired, cleared>>

\* ------------------------------------------------------------- get / has
\* Mutant: get compares expiresAt < Date.now() instead of <=.
Overdue_Strict(entry, t) == Truthy(entry.expiresAt) /\ entry.expiresAt < t

\* Whether get finds the entry overdue.
Overdue(entry, t) == Truthy(entry.expiresAt) /\ entry.expiresAt <= t

\* What get(k) returns at time t with table d.
GetResult(d, k, t) ==
    IF ~MapHas(d, k) THEN undefined
    ELSE IF Overdue(d[k], t) THEN undefined
    ELSE d[k].value

\* The effect of get(k) on the store, shared by get and has.
GetEffect(k) ==
    IF MapHas(data, k) /\ Overdue(data[k], now)
    THEN /\ data' = MapDelete(data, k)
         /\ expired' = Append(expired, ExpireCall(k, data[k], "lazy"))
    ELSE UNCHANGED <<data, expired>>

GetCalls(k) ==
    IF MapHas(data, k) /\ Overdue(data[k], now)
    THEN <<Call("onExpire", k, data[k].value)>>
    ELSE <<>>

Get(k) ==
    /\ GetEffect(k)
    /\ last' = [op |-> "get", key |-> k, ret |-> GetResult(data, k, now),
                calls |-> GetCalls(k)]
    /\ UNCHANGED <<now, queue, timer, timers, gone, cleared, nsets>>

Has(k) ==
    /\ GetEffect(k)
    /\ last' = [op |-> "has", key |-> k,
                ret |-> IF GetResult(data, k, now) # undefined THEN "true" ELSE "false",
                calls |-> GetCalls(k)]
    /\ UNCHANGED <<now, queue, timer, timers, gone, cleared, nsets>>

\* ------------------------------------------------------------- delete
\* Mutant: delete invokes onDelete whether or not the key was present.
Delete_AlwaysNotifies(k) ==
    LET deleted == MapHas(data, k) IN
    /\ data' = MapDelete(data, k)
    /\ last' = [op |-> "delete", key |-> k,
                ret |-> IF deleted THEN "true" ELSE "false",
                calls |-> <<Call("onDelete", k, undefined)>>]
    /\ gone' = IF deleted /\ Truthy(data[k].expiresAt) /\ now < data[k].expiresAt
               THEN [gone EXCEPT ![k] = TRUE]
               ELSE gone
    /\ UNCHANGED <<now, queue, timer, timers, expired, cleared, nsets>>

Delete(k) ==
    LET deleted == MapHas(data, k) IN
    /\ data' = MapDelete(data, k)
    /\ last' = [op |-> "delete", key |-> k,
                ret |-> IF deleted THEN "true" ELSE "false",
                calls |-> IF deleted THEN <<Call("onDelete", k, undefined)>> ELSE <<>>]
    /\ gone' = IF deleted /\ Truthy(data[k].expiresAt) /\ now < data[k].expiresAt
               THEN [gone EXCEPT ![k] = TRUE]
               ELSE gone
    /\ UNCHANGED <<now, queue, timer, timers, expired, cleared, nsets>>

\* ------------------------------------------------------------- stop
\* Mutant: stop forgets the handle without its clearTimeout.
stop_NoClear(h, ts) == [timer |-> null, timers |-> ts]

\* The state stop leaves: [timer, timers].
stop(h, ts) ==
    [timer |-> null, timers |-> IF h # null THEN clearTimeout(ts, h) ELSE ts]

Stop ==
    /\ timer' = stop(timer, timers).timer
    /\ timers' = stop(timer, timers).timers
    /\ last' = [op |-> "stop", key |-> undefined, ret |-> undefined, calls |-> <<>>]
    /\ UNCHANGED <<now, data, queue, expired, gone, cleared, nsets>>

\* ------------------------------------------------------------- clear
RECURSIVE PopAll(_)
PopAll(q) == IF Len(q) > 0 THEN PopAll(pop(q)) ELSE q

\* Mutant: clear without its call of stop.
Clear_NoStop ==
    /\ data' = EmptyMap
    /\ queue' = PopAll(queue)
    /\ last' = [op |-> "clear", key |-> undefined, ret |-> undefined,
                calls |-> <<Call("onClear", undefined, undefined)>>]
    /\ cleared' = nsets
    /\ UNCHANGED <<now, timer, timers, expired, gone, nsets>>

Clear ==
    /\ data' = EmptyMap
    /\ timer' = stop(timer, timers).timer
    /\ timers' = stop(timer, timers).timers
    /\ queue' = PopAll(queue)
    /\ last' = [op |-> "clear", key |-> undefined, ret |-> undefined,
                calls |-> <<Call("onClear", undefined, undefined)>>]
    /\ cleared' = nsets
    /\ UNCHANGED <<now, expired, gone, nsets>>

\* ------------------------------------------------------------- timeout callback
\* Mutant: the timeout callback without its closing call of _scheduleNext.
Fire_NoReschedule(t) ==
    /\ now >= t.at
    /\ data' = MapDelete(data, t.key)
    /\ expired' = Append(expired, ExpireCall(t.key, t.entry, "timer"))
    /\ queue' = pop(queue)
    /\ timers' = timers \ {t}
    /\ last' = [op |-> "timer", key |-> t.key, ret |-> undefined,
                calls |-> <<Call("onExpire", t.key, t.entry.value)>>]
    /\ UNCHANGED <<now, timer, gone, cleared, nsets>>

\* The callback of the timeout t, armed by _scheduleNext for (t.key, t.entry).
Fire(t) ==
    /\ now >= t.at
    /\ LET ts == timers \ {t}
           q1 == pop(queue)
           d1 == MapDelete(data, t.key)
           s == scheduleNext(d1, q1, timer, ts, now)
       IN /\ data' = d1
          /\ expired' = Append(expired, ExpireCall(t.key, t.entry, "timer"))
          /\ queue' = s.queue
          /\ timer' = s.timer
          /\ timers' = s.timers
    /\ last' = [op |-> "timer", key |-> t.key, ret |-> undefined,
                calls |-> <<Call("onExpire", t.key, t.entry.value)>>]
    /\ UNCHANGED <<now, gone, cleared, nsets>>

\* ------------------------------------------------------------- time
Tick ==
    /\ now < MaxTime
    /\ now' = now + 1
    /\ UNCHANGED <<data, queue, timer, timers, expired, last, gone, cleared, nsets>>

Next ==
    \/ \E k \in Keys, v \in Values, ttlMs \in TTLs : Set(k, v, ttlMs)
    \/ \E k \in Keys : Get(k)
    \/ \E k \in Keys : Has(k)
    \/ \E k \in Keys : Delete(k)
    \/ Clear
    \/ Stop
    \/ \E t \in timers : Fire(t)
    \/ Tick

Spec == Init /\ [][Next]_vars

\* ============================================================= properties
\* The step invoked onExpire for key k.
NewExpireFor(k) ==
    /\ Len(expired') = Len(expired) + 1
    /\ expired'[Len(expired')].key = k

\* Every call and every timeout callback that changes the state changes `last`
\* (Tick is the only action that leaves it), which is what lets a step be told
\* by `last`.
EveryCallChangesLast == [][now' = now => last' # last]_vars

\* The step is the public call `op`.
StepIs(op) == now' = now /\ last' # last /\ last'.op = op

\* The step is a set(k) or delete(k) call, or a clear() call.
KillStep(k) ==
    \/ (StepIs("set") \/ StepIs("delete")) /\ last'.key = k
    \/ StepIs("clear")

HasTTL(k) == MapHas(data, k) /\ Truthy(data[k].expiresAt)

\* C1: after set(k, v, ttl) and delete(k) before k's expiresAt, and with no later
\* set on k, no step invokes onExpire for k.
C1_DeleteSuppressesExpire ==
    [][\A k \in Keys : gone[k] /\ gone'[k] => ~NewExpireFor(k)]_vars

\* C2: an entry stored without a TTL stays in the table, and get returns its value,
\* across every step that is not a set(k), a delete(k) or a clear().
C2_NoTTLPersistence ==
    [][\A k \in Keys :
         (MapHas(data, k) /\ ~Truthy(data[k].expiresAt) /\ ~KillStep(k))
         => /\ MapHas(data', k)
            /\ GetResult(data', k, now') = data[k].value]_vars

\* C3: the entry created by one set() call causes at most one onExpire invocation.
C3_ExpireAtMostOnce ==
    \A i, j \in DOMAIN expired : i # j => expired[i].id # expired[j].id

\* The onExpire invocation the step made (when NewExpireFor holds).
NewExpire == expired'[Len(expired')]

\* C4: once set(k, v2, ttl2) has replaced an unexpired entry of k by one that
\* expires later, k stays in the table and onExpire is not invoked for k before the
\* second expiresAt (short of a set(k), delete(k) or clear()); and the onExpire
\* invocation for the second entry happens once, with value v2.
C4_OverwriteCancelsOldSchedule ==
    [][/\ \A k \in Keys :
            (HasTTL(k) /\ data[k].over /\ now < data[k].expiresAt /\ ~KillStep(k))
            => /\ MapHas(data', k)
               /\ data'[k] = data[k]
               /\ ~NewExpireFor(k)
       /\ \A k \in Keys :
            (NewExpireFor(k) /\ NewExpire.over)
            => /\ NewExpire.value = ValueOf(NewExpire.id)
               /\ \A i \in DOMAIN expired : expired[i].id # NewExpire.id]_vars

\* C5: the onExpire invocations made by the timeout callback are in non-decreasing
\* order of the expiresAt of the entries they report.
C5_ExpiryOrdering ==
    \A i, j \in DOMAIN expired :
        (i < j /\ expired[i].by = "timer" /\ expired[j].by = "timer")
        => expired[i].expiresAt <= expired[j].expiresAt

C5_Witness ==
    \E i, j \in DOMAIN expired :
        /\ i < j
        /\ expired[i].by = "timer" /\ expired[j].by = "timer"
        /\ expired[i].key # expired[j].key
        /\ expired[i].expiresAt < expired[j].expiresAt

\* --------------------------------------------------------- proactive expiration
\* The store used without get, has and stop: time advances and due timeouts fire.
NextLive ==
    \/ \E k \in Keys, v \in Values, ttlMs \in TTLs : Set(k, v, ttlMs)
    \/ \E k \in Keys : Delete(k)
    \/ Clear
    \/ \E t \in timers : Fire(t)
    \/ Tick

LiveSpec ==
    /\ Init
    /\ [][NextLive]_vars
    /\ WF_vars(Tick)
    /\ WF_vars(\E t \in timers : Fire(t))

\* The entry made by the i-th set() call is in the table under k, with a TTL.
InTable(k, i) == HasTTL(k) /\ data[k].id = i

C7_PreExpiryRetrieval ==
    [][\A k \in Keys :
         (HasTTL(k) /\ now' < data[k].expiresAt /\ ~KillStep(k))
         => /\ MapHas(data', k)
            /\ data'[k] = data[k]
            /\ GetResult(data', k, now') = data[k].value
            /\ (StepIs("get") /\ last'.key = k) => last'.ret = data[k].value
            /\ (StepIs("has") /\ last'.key = k) => last'.ret = "true"]_vars

C7_Witness ==
    /\ last.op = "get"
    /\ HasTTL(last.key)
    /\ last.ret = data[last.key].value
    /\ 0 < now /\ now < data[last.key].expiresAt
    /\ Len(expired) > 0

\* C8: a get(k) or has(k) at an instant at or after the expiresAt of k's entry
\* reports the key absent and leaves it out of the table, so that a following
\* has(k) is false; whether or not a timeout is still pending.
C8_PostExpiryRemoval ==
    [][\A k \in Keys :
         (/\ StepIs("get") \/ StepIs("has")
          /\ last'.key = k
          /\ HasTTL(k)
          /\ now >= data[k].expiresAt)
         => /\ last'.ret = IF last'.op = "get" THEN undefined ELSE "false"
            /\ ~MapHas(data', k)
            /\ GetResult(data', k, now') = undefined]_vars

C8_Witness ==
    /\ last.op = "get"
    /\ last.ret = undefined
    /\ last.calls # <<>>
    /\ \E t \in timers : t.key = last.key /\ t.at <= now

\* C9: delete(k) returns true iff k is in the table at the call, leaves k out of
\* the table, invokes onDelete(k) once when it returns true and not at all when it
\* returns false, and never invokes onExpire.
C9_DeleteResult ==
    [][\A k \in Keys :
         (StepIs("delete") /\ last'.key = k)
         => /\ (last'.ret = "true") <=> MapHas(data, k)
            /\ last'.ret \in {"true", "false"}
            /\ ~MapHas(data', k)
            /\ last'.calls = IF MapHas(data, k)
                             THEN <<Call("onDelete", k, undefined)>>
                             ELSE <<>>
            /\ expired' = expired]_vars

\* delete returned true for a key whose timeout is due and still pending.
C9_Witness ==
    /\ last.op = "delete"
    /\ last.ret = "true"
    /\ ~gone[last.key]
    /\ \E t \in timers : t.key = last.key /\ t.at <= now

\* C10: clear() leaves the table and the queue empty and no timeout pending, and
\* invokes onClear once; no later step invokes onExpire for an entry that was set
\* before the clear.
C10_ClearEffect ==
    [][/\ StepIs("clear")
          => /\ data' = EmptyMap
             /\ queue' = <<>>
             /\ timers' = {}
             /\ last'.calls = <<Call("onClear", undefined, undefined)>>
       /\ Len(expired') > Len(expired) => NewExpire.id > cleared]_vars

C10_Witness ==
    /\ cleared > 0
    /\ \E i \in DOMAIN expired : expired[i].id > cleared

\* --------------------------------------------------------- scheduler
\* The step is a set() call that stored an entry with a TTL.
TTLSetStep == StepIs("set") /\ Truthy(data'[last'.key].expiresAt)

\* C11: stop() leaves no timeout pending and changes neither the table, the queue,
\* the clock nor the onExpire log, so that with no timeout pending it changes
\* nothing of them; and once no timeout is pending, none is pending (hence none
\* fires) until a set() call with a TTL.
C11_StopFrame ==
    [][/\ StepIs("stop")
          => /\ timers' = {}
             /\ timers = {} => timers' = timers
             /\ last'.calls = <<>>
             /\ UNCHANGED <<now, data, queue, expired, gone, cleared, nsets>>
       /\ (timers = {} /\ ~TTLSetStep) => timers' = {}]_vars

\* stop() was called with a due timeout pending, and the overdue entry and its
\* queue item are still there with no timeout pending.
C11_Witness ==
    /\ last.op = "stop"
    /\ timers = {}
    /\ queue # <<>>
    /\ \E k \in Keys : HasTTL(k) /\ data[k].expiresAt <= now /\ ~Stale(data, peek(queue))

\* The store with every call, where time advances and due timeouts fire.
FairSpec ==
    /\ Init
    /\ [][Next]_vars
    /\ WF_vars(Tick)
    /\ WF_vars(\E t \in timers : Fire(t))

\* C12: a set() call with a TTL leaves a timeout pending, also after stop(); from
\* then on every entry with a TTL that is in the table, overdue or not, leaves the
\* table unless stop() is called again; a step other than set(k), delete(k) and
\* clear() that takes it out invokes onExpire with its key and value, and no entry
\* is reported by onExpire more than once.
C12_RearmAfterStop ==
    /\ [][TTLSetStep => timers' # {}]_vars
    /\ \A k \in Keys, i \in 1 .. MaxSets :
          (InTable(k, i) /\ timers # {}) ~> (~InTable(k, i) \/ last.op = "stop")
    /\ [][/\ \A k \in Keys :
              (HasTTL(k) /\ ~KillStep(k) /\ (~MapHas(data', k) \/ data'[k] # data[k]))
              => /\ ~MapHas(data', k)
                 /\ NewExpireFor(k)
                 /\ NewExpire.value = data[k].value
          /\ Len(expired') > Len(expired)
              => \A j \in DOMAIN expired : expired[j].id # NewExpire.id]_vars

\* --------------------------------------------------------- re-entrant callback
\* The timeout callback of t from its start to the return of the set(k, v, ttlMs)
\* call that its onExpire callback makes on the store: queue.pop(), _expire's
\* data.delete and onExpire, and inside onExpire the whole of set.  `last.op` is
\* "onExpire" while the callback is in progress.
FireEnter(t, k, v, ttlMs) ==
    /\ last.op # "onExpire"
    /\ now >= t.at
    /\ nsets < MaxSets
    /\ v = ValueOf(nsets + 1)
    /\ Truthy(ttlMs) => now + ttlMs <= MaxTime
    /\ LET ts == timers \ {t}
           q1 == pop(queue)
           d1 == MapDelete(data, t.key)
           expiresAt == IF Truthy(ttlMs) THEN now + ttlMs ELSE null
           entry == [value |-> v, expiresAt |-> expiresAt, id |-> nsets + 1,
                     over |-> /\ MapHas(d1, k)
                              /\ Truthy(d1[k].expiresAt)
                              /\ now < d1[k].expiresAt
                              /\ Truthy(expiresAt)
                              /\ d1[k].expiresAt < expiresAt]
           item == [key |-> k, expiresAt |-> expiresAt]
           d2 == MapSet(d1, k, entry)
       IN /\ data' = d2
          /\ expired' = Append(expired, ExpireCall(t.key, t.entry, "timer"))
          /\ IF Truthy(expiresAt)
             THEN \E p \in PushPositions(q1, item) :
                    LET s == scheduleNext(d2, InsertAt(q1, p, item), timer, ts, now)
                    IN /\ queue' = s.queue
                       /\ timer' = s.timer
                       /\ timers' = s.timers
             ELSE /\ queue' = q1
                  /\ timer' = timer
                  /\ timers' = ts
    /\ last' = [op |-> "onExpire", key |-> t.key, ret |-> undefined,
                calls |-> <<Call("onExpire", t.key, t.entry.value), Call("onSet", k, v)>>,
                ttlMs |-> ttlMs]
    /\ gone' = [gone EXCEPT ![k] = FALSE]
    /\ nsets' = nsets + 1
    /\ UNCHANGED <<now, cleared>>

\* The rest of that timeout callback once onExpire has returned: its closing
\* _scheduleNext.
FireLeave ==
    /\ last.op = "onExpire"
    /\ LET s == scheduleNext(data, queue, timer, timers, now)
       IN /\ queue' = s.queue
          /\ timer' = s.timer
          /\ timers' = s.timers
    /\ last' = [last EXCEPT !.op = "timer"]
    /\ UNCHANGED <<now, data, expired, gone, cleared, nsets>>

\* The store whose onExpire callback may call set: no call and no other timeout
\* callback runs while one is in progress.
NextReentrant ==
    \/ last.op # "onExpire" /\ Next
    \/ \E t \in timers, k \in Keys, v \in Values, ttlMs \in TTLs : FireEnter(t, k, v, ttlMs)
    \/ FireLeave

SpecReentrant == Init /\ [][NextReentrant]_vars

\* C13: at most one timeout is pending in every reachable state, the states inside
\* and after a timeout callback whose onExpire calls set included.
C13_SingleTimer == Cardinality(timers) <= 1

\* A timeout callback has finished whose onExpire set an entry with a TTL, and one
\* timeout is pending.
C13_Witness ==
    /\ last.op = "timer"
    /\ Len(last.calls) = 2
    /\ Truthy(last.ttlMs)
    /\ Cardinality(timers) = 1

\* C14: when a timeout's callback runs, the key it was armed for is in the table and
\* the expiresAt of its entry is the one the timeout was armed for.
C14_ArmedItemFresh ==
    [][StepIs("timer")
       => \A t \in timers :
            /\ MapHas(data, t.key)
            /\ data[t.key].expiresAt = t.expiresAt]_vars

\* The step's _scheduleNext started from the queue q1 and left its postcondition:
\* it popped a prefix of q1 whose items were all stale (key not in the table, or
\* with another expiresAt); and either the queue is empty and no timeout is
\* pending, or the one pending timeout is this.timer, is for the front item of the
\* queue, whose expiresAt is that of its key's entry, and is due max(0, expiresAt -
\* now) from now.
Reconciled(q1) ==
    /\ \E n \in 0 .. Len(q1) :
          /\ queue' = SubSeq(q1, n + 1, Len(q1))
          /\ \A i \in 1 .. n :
                \/ ~MapHas(data', q1[i].key)
                \/ data'[q1[i].key].expiresAt # q1[i].expiresAt
    /\ \/ queue' = <<>> /\ timers' = {}
       \/ /\ queue' # <<>>
          /\ \E t \in timers' :
                /\ timers' = {t}
                /\ timer' = t.id
                /\ t.key = Head(queue').key
                /\ t.expiresAt = Head(queue').expiresAt
                /\ MapHas(data', t.key)
                /\ data'[t.key].expiresAt = t.expiresAt
                /\ t.at = now' + Max(0, t.expiresAt - now')

\* C15: the state left by a set() call with a TTL, which runs _scheduleNext on the
\* queue with the new item pushed, and the state left by a timeout callback, which
\* runs it on the queue with the front item popped, satisfy that postcondition.
C15_ReconcilePost ==
    [][/\ TTLSetStep
          => \E p \in 0 .. Len(queue) :
               Reconciled(InsertAt(queue, p, [key |-> last'.key,
                                              expiresAt |-> data'[last'.key].expiresAt]))
       /\ StepIs("timer") => Reconciled(pop(queue))]_vars

\* A timeout callback that ran late has armed a timeout with delay 0 for the next
\* item, which is overdue.
C15_Witness ==
    /\ last.op = "timer"
    /\ queue # <<>>
    /\ \E t \in timers : t.expiresAt < now /\ t.at = now /\ t.key = Head(queue).key

\* --------------------------------------------------------- throwing callback
\* Mutant: the timeout callback re-arms although onExpire threw, as a try/finally
\* around _expire would.
FireThrows_Finally(t) ==
    /\ now >= t.at
    /\ LET s == scheduleNext(MapDelete(data, t.key), pop(queue), timer, timers \ {t}, now)
       IN /\ queue' = s.queue
          /\ timer' = s.timer
          /\ timers' = s.timers
    /\ data' = MapDelete(data, t.key)
    /\ expired' = Append(expired, ExpireCall(t.key, t.entry, "timer"))
    /\ last' = [op |-> "timer", key |-> t.key, ret |-> "throw",
                calls |-> <<Call("onExpire", t.key, t.entry.value)>>]
    /\ UNCHANGED <<now, gone, cleared, nsets>>

\* The callback of the timeout t when onExpire throws: queue.pop() and _expire's
\* data.delete have run, the exception leaves _expire and the callback, and the
\* closing _scheduleNext is not reached; this.timer keeps the handle of t.
FireThrows(t) ==
    /\ now >= t.at
    /\ data' = MapDelete(data, t.key)
    /\ expired' = Append(expired, ExpireCall(t.key, t.entry, "timer"))
    /\ queue' = pop(queue)
    /\ timers' = timers \ {t}
    /\ last' = [op |-> "timer", key |-> t.key, ret |-> "throw",
                calls |-> <<Call("onExpire", t.key, t.entry.value)>>]
    /\ UNCHANGED <<now, timer, gone, cleared, nsets>>

\* The store whose onExpire callback may throw when a timeout callback invokes it.
NextThrow ==
    \/ Next
    \/ \E t \in timers : FireThrows(t)

SpecThrow == Init /\ [][NextThrow]_vars

\* The step is a timeout callback that onExpire's exception ended.
ThrowStep == StepIs("timer") /\ last'.ret = "throw"

\* C16: a timeout callback whose onExpire throws has popped the front item of the
\* queue, removed the key's entry and invoked onExpire, leaves the rest of the queue
\* as it is and no timeout pending; and while no timeout is pending no timeout
\* callback expires an entry, until a set() call with a TTL arms one.
C16_ThrowAbortsRearm ==
    [][/\ ThrowStep
          => /\ queue' = pop(queue)
             /\ data' = MapDelete(data, last'.key)
             /\ NewExpireFor(last'.key)
             /\ timers' = {}
       /\ (timers = {} /\ ~TTLSetStep)
          => /\ timers' = {}
             /\ Len(expired') > Len(expired) => NewExpire.by = "lazy"]_vars

\* onExpire threw in a timeout callback, since when no timeout is pending while a
\* valid, overdue item is at the front of the queue.
C16_Witness ==
    /\ last.op = "timer" /\ last.ret = "throw"
    /\ timers = {}
    /\ queue # <<>>
    /\ MapHas(data, Head(queue).key)
    /\ data[Head(queue).key].expiresAt = Head(queue).expiresAt
    /\ Head(queue).expiresAt < now

\* C17: in every state with a timeout pending, the item the timeout was armed for
\* is the front item of the queue, so that the callback's queue.pop() removes it.
C17_ArmedIsFront ==
    \A t \in timers :
        /\ queue # <<>>
        /\ Head(queue).key = t.key
        /\ Head(queue).expiresAt = t.expiresAt

\* Two items of equal expiresAt are in the queue, the one pushed last in front, and
\* the pending timeout is for it.
C17_Witness ==
    /\ Len(queue) = 2
    /\ queue[1].expiresAt = queue[2].expiresAt
    /\ queue[1].key # queue[2].key
    /\ MapHas(data, queue[1].key) /\ MapHas(data, queue[2].key)
    /\ data[queue[1].key].id > data[queue[2].key].id
    /\ \E t \in timers : t.key = queue[1].key

\* C18: for every key whose entry in the table has an expiresAt, the queue holds an
\* item with that key and that expiresAt.
C18_LiveEntryQueued ==
    \A k \in Keys :
        HasTTL(k)
        => \E i \in DOMAIN queue :
             queue[i].key = k /\ queue[i].expiresAt = data[k].expiresAt

\* A timeout callback has popped its item and the item of the other key's entry,
\* which has a TTL, is still in the queue.
C18_Witness ==
    /\ last.op = "timer"
    /\ \E k \in Keys :
          /\ k # last.key
          /\ HasTTL(k)
          /\ queue = <<[key |-> k, expiresAt |-> data[k].expiresAt]>>

\* A non-empty queue has a timeout pending.
Armed == queue # <<>> => timers # {}

\* C19: a non-empty queue has a timeout pending in the initial state and after
\* every set() call with a TTL, and a step that is neither stop() nor a timeout
\* callback ended by an exception keeps it so; hence it holds in every state
\* reached with no stop() since the last set() with a TTL and no such exception.
C19_NoLostWakeup ==
    /\ Armed
    /\ [][/\ TTLSetStep => Armed'
          /\ (Armed /\ ~StepIs("stop") /\ ~ThrowStep) => Armed']_vars

\* A stale item is at the front of the queue after a delete or a lazy expiry, an
\* item of a live entry is behind it, and the timeout is still pending.
C19_Witness ==
    /\ last.op \in {"delete", "get", "has"}
    /\ Len(queue) = 2
    /\ ~MapHas(data, queue[1].key)
    /\ HasTTL(queue[2].key)
    /\ timers # {}

\* C20: a set(k, v, 0) call stores the entry without expiresAt and changes nothing
\* else of the store, exactly as set(k, v) does: the queue, this.timer, the pending
\* timeouts and the onExpire log are as before; get finds the entry at every later
\* instant; and no timeout is ever armed for an entry without expiresAt.
C20_ZeroTTL ==
    [][/\ (StepIs("set") /\ last'.ttlMs = 0)
          => /\ data' = MapSet(data, last'.key,
                              [value |-> last'.calls[1].value, expiresAt |-> null,
                               id |-> nsets', over |-> FALSE])
             /\ UNCHANGED <<queue, timer, timers, expired, now>>
             /\ \A t \in now .. MaxTime :
                   GetResult(data', last'.key, t) = last'.calls[1].value
       /\ \A t \in timers' : Truthy(t.entry.expiresAt)]_vars

\* set(k, v, 0) has replaced an entry of k that had a TTL; the timeout armed for
\* that entry is still pending and its item is still in the queue.
C20_Witness ==
    /\ last.op = "set"
    /\ last.ttlMs = 0
    /\ data[last.key].expiresAt = null
    /\ queue # <<>> /\ Head(queue).key = last.key
    /\ \E t \in timers : t.key = last.key
====
